---- MODULE Spec2Model ----
(***************************************************************************)
(* A model of statsf1_scrape.py: slug discovery on the anchor page, the    *)
(* freshness selection by HTTP HEAD probes, the harvesting loop over the   *)
(* eight sub-pages and the workbook writer.  Python strings are TLA+       *)
(* strings, taken apart with Len, SubSeq and \o.  Python's None is the     *)
(* empty tuple <<>> and a value v that may be None is <<v>>.               *)
(***************************************************************************)
EXTENDS Integers, Sequences, FiniteSets, TLC

\* ------------------------------------------------------------- bounds
\* The most anchors on the fetched page.
MaxAnchors == 3
\* Last-Modified instants are 0..MaxTime, 0 being 0001-01-01 00:00:00.
MaxTime == 2
\* The most tables pd.read_html yields for one sub-page.
MaxTables == 2
\* Sheet-name inputs: a run of at most MaxFill letters, then at most
\* MaxSuffix arbitrary characters.
MaxFill == 31
MaxSuffix == 2

\* --------------------------------------------------- program constants
YEAR == 2025
SheetNameMax == 31
\* dt.datetime.min, the first instant a datetime can hold.
DatetimeMin == 0

PAGES ==
  << "engages.aspx", "qualification.aspx", "grille.aspx", "classement.aspx",
     "en-tete.aspx", "meilleur-tour.aspx", "tour-par-tour.aspx",
     "championnat.aspx" >>

\* ------------------------------------------------------------- strings
Min(a, b) == IF a <= b THEN a ELSE b

Char(s, n) == SubSeq(s, n, n)

Chars(s) == { Char(s, n) : n \in 1..Len(s) }

\* s[n:] of Python, n counted from 0.
From(s, n) == SubSeq(s, n + 1, Len(s))

StartsWith(s, pre) == Len(s) >= Len(pre) /\ SubSeq(s, 1, Len(pre)) = pre

\* The printable ASCII characters in code point order, 32..95 and 97..126.
AsciiLow == " !\"#$%&'()*+,-./0123456789:;<=>?@ABCDEFGHIJKLMNOPQRSTUVWXYZ[\\]^_"
AsciiHigh == "abcdefghijklmnopqrstuvwxyz{|}~"

\* ord(c) for the characters the model uses.
Ord(c) ==
  IF c \in Chars(AsciiLow)
  THEN 31 + (CHOOSE n \in 1..Len(AsciiLow) : Char(AsciiLow, n) = c)
  ELSE 96 + (CHOOSE n \in 1..Len(AsciiHigh) : Char(AsciiHigh, n) = c)

\* a < b for Python strings: by code point at the first difference, a proper
\* prefix first.
StrLess(a, b) ==
  \E n \in 0..Min(Len(a), Len(b)) :
    /\ SubSeq(a, 1, n) = SubSeq(b, 1, n)
    /\ \/ n = Len(a) /\ n < Len(b)
       \/ /\ n < Len(a)
          /\ n < Len(b)
          /\ Ord(Char(a, n + 1)) < Ord(Char(b, n + 1))

\* sorted(s) for a set of strings.
RECURSIVE Sorted(_)
Sorted(S) ==
  IF S = {} THEN << >>
  ELSE LET m == CHOOSE x \in S : \A y \in S : ~StrLess(y, x)
       IN  << m >> \o Sorted(S \ {m})

Digits == "0123456789"

\* str(n) for n >= 0.
RECURSIVE ToDecimal(_)
ToDecimal(n) ==
  IF n < 10 THEN Char(Digits, n + 1)
  ELSE ToDecimal(n \div 10) \o Char(Digits, (n % 10) + 1)

\* s.replace(old, new) for a non-empty old: every occurrence, left to
\* right, scanning from position n.
RECURSIVE ReplaceFrom(_, _, _, _)
ReplaceFrom(s, n, old, new) ==
  IF n > Len(s) THEN ""
  ELSE IF n + Len(old) - 1 <= Len(s) /\ SubSeq(s, n, n + Len(old) - 1) = old
       THEN new \o ReplaceFrom(s, n + Len(old), old, new)
       ELSE Char(s, n) \o ReplaceFrom(s, n + 1, old, new)

StrReplace(s, old, new) == ReplaceFrom(s, 1, old, new)

Whitespace == { " ", "\t", "\n", "\r", "\f" }

\* s.strip(): s from its first to its last character that is no whitespace.
Strip(s) ==
  LET keep == { n \in 1..Len(s) : Char(s, n) \notin Whitespace }
  IN  IF keep = {} THEN ""
      ELSE SubSeq(s, CHOOSE n \in keep : \A q \in keep : n <= q,
                     CHOOSE n \in keep : \A q \in keep : q <= n)

\* ------------------------------------------------------- slug patterns
\* The character class [a-z0-9\-].
SlugChars == Chars("abcdefghijklmnopqrstuvwxyz0123456789-")

\* re.fullmatch(r"[a-z0-9\-]+", slug)
FullMatchSlug(slug) == Len(slug) >= 1 /\ Chars(slug) \subseteq SlugChars

\* The f-string prefix ^/en/{year}/ of the pattern.
HrefPrefix(year) == "/en/" \o ToDecimal(year) \o "/"

\* The length of the longest run of slug characters of s from position n.
RECURSIVE RunLength(_, _)
RunLength(s, n) ==
  IF n <= Len(s) /\ Char(s, n) \in SlugChars THEN 1 + RunLength(s, n + 1) ELSE 0

\* The group (?:/|\.aspx) at the start of s.
Terminated(s) == StartsWith(s, "/") \/ StartsWith(s, ".aspx")

\* The pattern without its terminator group: ^/en/{year}/([a-z0-9\-]+)
ReMatchNoTerminator(year, href) ==
  LET pre == HrefPrefix(year)
      run == RunLength(href, Len(pre) + 1)
  IN  IF StartsWith(href, pre) /\ run >= 1
      THEN << SubSeq(href, Len(pre) + 1, Len(pre) + run) >>
      ELSE << >>

\* re.match(rf"^/en/{year}/([a-z0-9\-]+)(?:/|\.aspx)", href): <<group 1>>, or
\* <<>> for no match.  The + is greedy and gives characters back until the
\* terminator group matches.
ReMatchSlug(year, href) ==
  LET pre == HrefPrefix(year)
      run == RunLength(href, Len(pre) + 1)
      ok  == { n \in 1..run : Terminated(From(href, Len(pre) + n)) }
  IN  IF StartsWith(href, pre) /\ ok # {}
      THEN << SubSeq(href, Len(pre) + 1,
                     Len(pre) + (CHOOSE n \in ok : \A q \in ok : q <= n)) >>
      ELSE << >>

\* ---------------------------------------------------------- sheet names
BadChars == { ":", "\\", "/", "?", "*", "[", "]" }

\* re.sub(r'[:\\/?*\[\]]', "-", name), scanning from position n.
RECURSIVE ReSubFrom(_, _)
ReSubFrom(name, n) ==
  IF n > Len(name) THEN ""
  ELSE (IF Char(name, n) \in BadChars THEN "-" ELSE Char(name, n))
         \o ReSubFrom(name, n + 1)

ReSubBad(name) == ReSubFrom(name, 1)

\* The slice taken one character too long: name[:32]
safe_sheet_name_off_by_one(name) ==
  SubSeq(ReSubBad(name), 1, Min(Len(name), SheetNameMax + 1))

\* safe_sheet_name: the substitution, then name[:31]
safe_sheet_name(name) ==
  SubSeq(ReSubBad(name), 1, Min(Len(name), SheetNameMax))

\* The title with the index counted from 0, as a bare enumerate(dfs) gives.
SheetTitleFromZero(slug, page, n) ==
  slug \o "_" \o StrReplace(page, ".aspx", "") \o "_" \o ToDecimal(n - 1)

\* f"{latest_slug}_{page.replace('.aspx','')}_{i}", i from enumerate(start=1)
SheetTitle(slug, page, n) ==
  slug \o "_" \o StrReplace(page, ".aspx", "") \o "_" \o ToDecimal(n)

\* ------------------------------------------------------------ inputs
\* href attributes an anchor of the fetched page may carry.
HrefPool ==
  { "/en/2025/abou-dhabi/classement.aspx",
    "/en/2025/las-vegas.aspx",
    "/en/2025/../x.aspx",
    " /en/2025/las-vegas/ ",
    "/en/2025/emilie-romagne-imola/grille.aspx",
    "/en/2024/qatar.aspx",
    "/en/2025/Qatar.aspx",
    "/en/2025/qatar",
    "/en/2025/qatar.asp",
    "/en/2025/monza_gp/" }

\* soup.select("a[href]"): the anchors of the page, in document order.
AnchorLists == UNION { [1..n -> HrefPool] : n \in 0..MaxAnchors }

\* r.headers.get("Last-Modified"): no header, an empty value, a value
\* strptime rejects, or an RFC 1123 date (the instant t).
HeaderValues ==
  { [kind |-> "absent", t |-> 0], [kind |-> "empty", t |-> 0],
    [kind |-> "malformed", t |-> 0] }
    \cup { [kind |-> "valid", t |-> t] : t \in 0..MaxTime }

\* What requests.head does: it raises (network error, timeout), or returns a
\* response with the status of the last redirect hop and its headers.
Outcomes ==
  { [kind |-> "raise", status |-> 0, lm |-> [kind |-> "absent", t |-> 0]] }
    \cup { [kind |-> "resp", status |-> st, lm |-> h] :
             st \in {200, 399}, h \in HeaderValues }
    \cup { [kind |-> "resp", status |-> st, lm |-> h] :
             st \in {400, 404},
             h \in { [kind |-> "absent", t |-> 0],
                     [kind |-> "valid", t |-> MaxTime] } }

\* --------------------------------------------------- freshness selection
\* The comparison strict: r.status_code > 400
StatusIsErrorAbove400(status) == status > 400

\* r.status_code >= 400
StatusIsError(status) == status >= 400

\* if lm: a header that is there and not empty.
Truthy(lm) == lm.kind \notin {"absent", "empty"}

\* dt.datetime.strptime(lm, "%a, %d %b %Y %H:%M:%S %Z"): <<instant>>, or <<>>
\* when it raises ValueError.
Strptime(lm) == IF lm.kind = "valid" THEN << lm.t >> ELSE << >>

\* The comparison not strict: best_dt is None or t >= best_dt
IsFresherOrEqual(t, best_dt) == best_dt = << >> \/ t >= best_dt[1]

\* best_dt is None or t > best_dt
IsFresher(t, best_dt) == best_dt = << >> \/ t > best_dt[1]

\* The try block with a failed probe forgetting the best so far.
LoopBodyResetOnError(b, slug, o) ==
  IF o.kind = "raise" \/ StatusIsError(o.status)
  THEN [best |-> << >>, best_dt |-> << >>]
  ELSE IF Truthy(o.lm) /\ Strptime(o.lm) = << >> THEN b
  ELSE LET t == IF Truthy(o.lm) THEN Strptime(o.lm)[1] ELSE DatetimeMin
       IN  IF IsFresher(t, b.best_dt)
           THEN [best |-> << slug >>, best_dt |-> << t >>]
           ELSE b

\* One pass of the try block for a slug that passed the fullmatch: the
\* (best, best_dt) pair after it.  Each `continue`, and the except clause,
\* leaves the pair as it was.
LoopBody(b, slug, o) ==
  IF o.kind = "raise" THEN b
  ELSE IF StatusIsError(o.status) THEN b
  ELSE IF Truthy(o.lm) /\ Strptime(o.lm) = << >> THEN b
  ELSE LET t == IF Truthy(o.lm) THEN Strptime(o.lm)[1] ELSE DatetimeMin
       IN  IF IsFresher(t, b.best_dt)
           THEN [best |-> << slug >>, best_dt |-> << t >>]
           ELSE b

\* `not best` for a str or None.
Falsy(x) == x = << >> \/ x = << "" >>

\* `slugs is None` for a list: never true.
IsNoneList(l) == Len(l) < 0

\* `not slugs` for a list.
NotList(l) == l = << >>

\* --------------------------------------------------------- the workbook
\* df.to_excel(writer, sheet_name=name): a new sheet at the end of the
\* book, or, when the book has a sheet of that name, that sheet written over.
ToExcel(book, name, table) ==
  IF \E n \in DOMAIN book : book[n].name = name
  THEN [ n \in DOMAIN book |->
           IF book[n].name = name THEN [name |-> name, table |-> table]
           ELSE book[n] ]
  ELSE Append(book, [name |-> name, table |-> table])

\* -------------------------------------------------------------- state
VARIABLES
  pc,           \* where the run is
  error,        \* the exception that ended the run, "" for none
  anchors,      \* get_race_slugs_for_year: the anchors' href attributes
  k,            \* get_race_slugs_for_year: the anchor the loop is at
  found,        \* get_race_slugs_for_year: the set `slugs`
  slugs,        \* main: the sorted list `slugs`
  i,            \* pick_latest_race_slug: the position in `slugs`
  best,         \* pick_latest_race_slug: `best`
  best_dt,      \* pick_latest_race_slug: `best_dt`
  probes,       \* pick_latest_race_slug: the HEAD probes made, with outcomes
  latest_slug,  \* main: `latest_slug`
  writer,       \* the ExcelWriter: "unopened", "open" or "closed"
  sheets,       \* the writer's book: its sheets in order
  p,            \* main: sub-pages fetched so far (PAGES[p] is the current one)
  dfs,          \* main: the number of tables of the current sub-page
  j,            \* main: the 1-based index of the next table to write
  tables,       \* the number of tables each fetched sub-page gave
  disk,         \* the sheets of the saved file, <<>> while there is none
  saved,        \* the "Saved:" line was printed
  arg,          \* safe_sheet_name alone: its argument
  res           \* safe_sheet_name alone: the results so far

vars ==
  << pc, error, anchors, k, found, slugs, i, best, best_dt, probes,
     latest_slug, writer, sheets, p, dfs, j, tables, disk, saved, arg, res >>

discoverVars == << anchors, k, found >>
pickVars == << i, best, best_dt, probes >>
bookVars == << writer, sheets, disk >>
loopVars == << p, dfs, j, tables >>
sheetVars == << arg, res >>

Init ==
  /\ pc = "start"
  /\ error = ""
  /\ anchors = << >>
  /\ k = 0
  /\ found = {}
  /\ slugs = << >>
  /\ i = 0
  /\ best = << >>
  /\ best_dt = << >>
  /\ probes = << >>
  /\ latest_slug = << >>
  /\ writer = "unopened"
  /\ sheets = << >>
  /\ p = 0
  /\ dfs = 0
  /\ j = 1
  /\ tables = << >>
  /\ disk = << >>
  /\ saved = FALSE
  /\ arg = ""
  /\ res = << >>

\* ------------------------------------------------------ slug discovery
\* requests.get succeeds and the page is parsed; `slugs = set()`.
DiscoverFetch ==
  /\ pc = "start"
  /\ \E as \in AnchorLists : anchors' = as
  /\ k' = 1
  /\ found' = {}
  /\ pc' = "discovering"
  /\ UNCHANGED << error, slugs, pickVars, latest_slug, bookVars, loopVars,
                  saved, sheetVars >>

\* requests.get raises, or raise_for_status does.
DiscoverFetchFails ==
  /\ pc = "start"
  /\ pc' = "failed"
  /\ error' = "HTTPError"
  /\ UNCHANGED << discoverVars, slugs, pickVars, latest_slug, bookVars,
                  loopVars, saved, sheetVars >>

\* One pass of `for a in soup.select("a[href]")`.
DiscoverScan ==
  /\ pc = "discovering"
  /\ k <= Len(anchors)
  /\ LET href == Strip(anchors[k])
         m    == ReMatchSlug(YEAR, href)
     IN  found' = IF m # << >> THEN found \cup { m[1] } ELSE found
  /\ k' = k + 1
  /\ UNCHANGED << pc, error, anchors, slugs, pickVars, latest_slug, bookVars,
                  loopVars, saved, sheetVars >>

\* `return sorted(slugs)`, assigned to main's `slugs`.
DiscoverReturn ==
  /\ pc = "discovering"
  /\ k > Len(anchors)
  /\ slugs' = Sorted(found)
  /\ pc' = "discovered"
  /\ UNCHANGED << error, discoverVars, pickVars, latest_slug, bookVars,
                  loopVars, saved, sheetVars >>

\* `if not slugs: raise RuntimeError("No race slugs found. ...")`
MainNoSlugs ==
  /\ pc = "discovered"
  /\ NotList(slugs)
  /\ pc' = "failed"
  /\ error' = "NoSlugs"
  /\ UNCHANGED << discoverVars, slugs, pickVars, latest_slug, bookVars,
                  loopVars, saved, sheetVars >>

\* The call pick_latest_race_slug(slugs); the frame of
\* get_race_slugs_for_year is gone.
MainCallPick ==
  /\ pc = "discovered"
  /\ ~NotList(slugs)
  /\ pc' = "probing"
  /\ anchors' = << >>
  /\ k' = 0
  /\ found' = {}
  /\ i' = 1
  /\ best' = << >>
  /\ best_dt' = << >>
  /\ probes' = << >>
  /\ UNCHANGED << error, slugs, latest_slug, bookVars, loopVars, saved,
                  sheetVars >>

\* One pass of `for slug in slugs`: a slug that fails the fullmatch is
\* passed over unprobed, any other is probed once.
PickProbe ==
  /\ pc = "probing"
  /\ i <= Len(slugs)
  /\ IF ~FullMatchSlug(slugs[i])
     THEN UNCHANGED << best, best_dt, probes >>
     ELSE \E o \in Outcomes :
            LET b == LoopBody([best |-> best, best_dt |-> best_dt],
                              slugs[i], o)
            IN  /\ best' = b.best
                /\ best_dt' = b.best_dt
                /\ probes' = Append(probes, [slug |-> slugs[i], o |-> o])
  /\ i' = i + 1
  /\ UNCHANGED << pc, error, discoverVars, slugs, latest_slug, bookVars,
                  loopVars, saved, sheetVars >>

\* `if not best: raise RuntimeError("Could not determine latest race slug ...")`
PickRaise ==
  /\ pc = "probing"
  /\ i > Len(slugs)
  /\ Falsy(best)
  /\ pc' = "failed"
  /\ error' = "NoLatest"
  /\ UNCHANGED << discoverVars, slugs, pickVars, latest_slug, bookVars,
                  loopVars, saved, sheetVars >>

\* `return best`, assigned to main's `latest_slug`.
PickReturn ==
  /\ pc = "probing"
  /\ i > Len(slugs)
  /\ ~Falsy(best)
  /\ latest_slug' = best
  /\ pc' = "selected"
  /\ UNCHANGED << error, discoverVars, slugs, pickVars, bookVars, loopVars,
                  saved, sheetVars >>

\* ------------------------------------------------- harvest and workbook
\* A writer used without `with`: leaving the block does nothing to it.
LeftOpen(w) == w

\* What leaving the `with` block does to the writer: ExcelWriter.__exit__
\* closes it, which saves the book, on a normal exit and on an exception.
WithExit(w) == "closed"

\* `with pd.ExcelWriter(out_file, engine="openpyxl") as writer:`; the frame
\* of pick_latest_race_slug is gone.
OpenWriter ==
  /\ pc = "selected"
  /\ writer = "unopened"
  /\ writer' = "open"
  /\ pc' = "opened"
  /\ i' = 0
  /\ best' = << >>
  /\ best_dt' = << >>
  /\ probes' = << >>
  /\ UNCHANGED << error, discoverVars, slugs, latest_slug, sheets, disk,
                  loopVars, saved, sheetVars >>

\* The Run Record: pd.DataFrame([...]).to_excel(writer, sheet_name="RunLog")
WriteRunLog ==
  /\ pc = "opened"
  /\ sheets' = ToExcel(sheets, "RunLog", << 0, 0 >>)
  /\ pc' = "harvesting"
  /\ UNCHANGED << error, discoverVars, slugs, pickVars, latest_slug, writer,
                  disk, loopVars, saved, sheetVars >>

\* `for page in PAGES`: scrape_tables(url) returns n tables.  pd.read_html
\* returns a list that is never empty: a page without tables raises.
FetchPage ==
  /\ pc = "harvesting"
  /\ j > dfs
  /\ p < Len(PAGES)
  /\ \E n \in 1..MaxTables :
       /\ dfs' = n
       /\ tables' = Append(tables, n)
  /\ p' = p + 1
  /\ j' = 1
  /\ UNCHANGED << pc, error, discoverVars, slugs, pickVars, latest_slug,
                  bookVars, saved, sheetVars >>

\* scrape_tables(url) raises and the loop goes on to the next sub-page, as
\* it would with the call wrapped in try/except.
FetchFailsCaught ==
  /\ pc = "harvesting"
  /\ j > dfs
  /\ p < Len(PAGES)
  /\ p' = p + 1
  /\ dfs' = 0
  /\ j' = 1
  /\ error' = "HarvestError"
  /\ UNCHANGED << pc, discoverVars, slugs, pickVars, latest_slug, bookVars,
                  tables, saved, sheetVars >>

\* scrape_tables(url) raises: nothing in main catches it, the `with` block
\* is left by the exception and the run ends.
FetchFails ==
  /\ pc = "harvesting"
  /\ j > dfs
  /\ p < Len(PAGES)
  /\ p' = p + 1
  /\ error' = "HarvestError"
  /\ writer' = WithExit(writer)
  /\ disk' = IF WithExit(writer) = "closed" THEN sheets ELSE disk
  /\ pc' = "failed"
  /\ UNCHANGED << discoverVars, slugs, pickVars, latest_slug, sheets, dfs, j,
                  tables, saved, sheetVars >>

\* One pass of `for i, df in enumerate(dfs, start=1)`.
WriteTable ==
  /\ pc = "harvesting"
  /\ j <= dfs
  /\ sheets' = ToExcel(sheets,
                       safe_sheet_name(SheetTitle(latest_slug[1], PAGES[p], j)),
                       << p, j >>)
  /\ j' = j + 1
  /\ UNCHANGED << pc, error, discoverVars, slugs, pickVars, latest_slug,
                  writer, disk, p, dfs, tables, saved, sheetVars >>

\* The end of the `with` block after the last sub-page.
CloseWriter ==
  /\ pc = "harvesting"
  /\ j > dfs
  /\ p = Len(PAGES)
  /\ writer' = WithExit(writer)
  /\ disk' = IF WithExit(writer) = "closed" THEN sheets ELSE disk
  /\ pc' = "closed"
  /\ UNCHANGED << error, discoverVars, slugs, pickVars, latest_slug, sheets,
                  loopVars, saved, sheetVars >>

\* print(f"Saved: {out_file.resolve()}")
PrintSaved ==
  /\ pc = "closed"
  /\ saved' = TRUE
  /\ pc' = "done"
  /\ UNCHANGED << error, discoverVars, slugs, pickVars, latest_slug, bookVars,
                  loopVars, sheetVars >>

Next ==
  \/ DiscoverFetch
  \/ DiscoverFetchFails
  \/ DiscoverScan
  \/ DiscoverReturn
  \/ MainNoSlugs
  \/ MainCallPick
  \/ PickProbe
  \/ PickRaise
  \/ PickReturn
  \/ OpenWriter
  \/ WriteRunLog
  \/ FetchPage
  \/ FetchFails
  \/ WriteTable
  \/ CloseWriter
  \/ PrintSaved

Spec == Init /\ [][Next]_vars

\* ------------------------------------------------ safe_sheet_name alone
\* The characters sheet-name inputs are made of.
NameAlphabet == Chars(":\\/?*[]a-_1")

RECURSIVE Fill(_)
Fill(n) == IF n = 0 THEN "" ELSE "a" \o Fill(n - 1)

RECURSIVE Strings(_)
Strings(n) ==
  IF n = 0 THEN { "" }
  ELSE Strings(n - 1)
         \cup { s \o c : s \in Strings(n - 1), c \in NameAlphabet }

NameInputs == { Fill(n) \o s : n \in 0..MaxFill, s \in Strings(MaxSuffix) }

InitSheet ==
  /\ pc = "sheet"
  /\ error = ""
  /\ anchors = << >>
  /\ k = 0
  /\ found = {}
  /\ slugs = << >>
  /\ i = 0
  /\ best = << >>
  /\ best_dt = << >>
  /\ probes = << >>
  /\ latest_slug = << >>
  /\ writer = "unopened"
  /\ sheets = << >>
  /\ p = 0
  /\ dfs = 0
  /\ j = 1
  /\ tables = << >>
  /\ disk = << >>
  /\ saved = FALSE
  /\ arg \in NameInputs
  /\ res = << >>

\* safe_sheet_name applied to the argument, then to its own result.
SheetSanitize ==
  /\ pc = "sheet"
  /\ Len(res) < 2
  /\ res' = Append(res, safe_sheet_name(IF res = << >> THEN arg
                                        ELSE res[Len(res)]))
  /\ UNCHANGED << pc, error, discoverVars, slugs, pickVars, latest_slug,
                  bookVars, loopVars, saved, arg >>

NextSheet == SheetSanitize

SpecSheet == InitSheet /\ [][NextSheet]_vars

\* =============================================================== claims
\* What the claims call things, stated apart from the operators above.
Range(f) == { f[n] : n \in DOMAIN f }

\* A probe that failed: it raised, or the status is an HTTP error.
ProbeFailed(o) == o.kind = "raise" \/ o.status \in 400..599

\* A probe that yields a timestamp: a response below 400 whose
\* Last-Modified, when there is one, parses.
ProbeSucceeded(o) ==
  o.kind = "resp" /\ o.status \in 100..399 /\ o.lm.kind # "malformed"

\* The timestamp of a successful probe: the parsed header, or the minimum.
Stamp(o) == IF o.lm.kind = "valid" THEN o.lm.t ELSE DatetimeMin

Succeeded == { n \in DOMAIN probes : ProbeSucceeded(probes[n].o) }

ProbedSlugs == [ n \in DOMAIN probes |-> probes[n].slug ]

\* The probes of the slug that was returned.
ReturnedProbes == { n \in DOMAIN probes : << probes[n].slug >> = latest_slug }

\* C1: pick_latest_race_slug never returns a slug whose probe raised or
\* returned a status >= 400: the slug it returns is one of the input list
\* and its probe succeeded.
C1_ReturnsOnlySucceededProbe ==
  pc = "selected" =>
    /\ latest_slug[1] \in Range(slugs)
    /\ ReturnedProbes # {}
    /\ \A n \in ReturnedProbes :
         ~ProbeFailed(probes[n].o) /\ ProbeSucceeded(probes[n].o)

\* The scenario of the spec: abou-dhabi answers 200 with a Last-Modified,
\* las-vegas answers 404, and abou-dhabi is returned.
C1_Witness ==
  /\ pc = "selected"
  /\ slugs = << "abou-dhabi", "las-vegas" >>
  /\ probes[1].o.status = 200
  /\ probes[1].o.lm.kind = "valid"
  /\ probes[2].o.status = 404
  /\ latest_slug = << "abou-dhabi" >>

\* C2: when a probe succeeds, the returned slug has the largest timestamp
\* among the successful probes, and it is the first in list order of those
\* that have it.
C2_MaxTimestampFirstSeenWins ==
  pc = "selected" =>
    \A w \in ReturnedProbes :
      /\ w \in Succeeded
      /\ \A n \in Succeeded :
           /\ Stamp(probes[n].o) <= Stamp(probes[w].o)
           /\ n < w => Stamp(probes[n].o) < Stamp(probes[w].o)

\* Two successful probes tie on the largest timestamp and the earlier slug
\* is returned.
C2_Witness ==
  /\ pc = "selected"
  /\ Len(probes) = 3
  /\ {1, 3} \subseteq Succeeded
  /\ probes[1].o.lm.kind = "valid"
  /\ probes[3].o.lm.kind = "valid"
  /\ probes[1].o.lm.t = probes[3].o.lm.t
  /\ probes[1].o.lm.t > 0
  /\ latest_slug = << probes[1].slug >>

\* C3: with a candidate A whose probe succeeds without a Last-Modified
\* header and a candidate B whose probe succeeds with a valid one, A is
\* never returned.
C3_HeaderlessNeverBeatsDated ==
  pc = "selected" =>
    \A a, b \in Succeeded :
      (probes[a].o.lm.kind = "absent" /\ probes[b].o.lm.kind = "valid")
        => latest_slug # << probes[a].slug >>

\* C4: the run ends in "could not determine latest race" exactly when no
\* probe succeeded; a failed probe is passed over, every slug of the list
\* is still probed, in order.
C4_FailsOnlyWhenNoProbeSucceeds ==
  /\ pc = "probing" => ProbedSlugs = SubSeq(slugs, 1, i - 1)
  /\ error = "NoLatest" => (Succeeded = {} /\ ProbedSlugs = slugs)
  /\ pc = "selected" => (Succeeded # {} /\ ProbedSlugs = slugs)

\* The first probe raises, the second succeeds, the third answers an HTTP
\* error: the run still selects.
C4_Witness ==
  /\ pc = "selected"
  /\ Len(probes) = 3
  /\ probes[1].o.kind = "raise"
  /\ ProbeSucceeded(probes[2].o)
  /\ probes[3].o.status = 404
  /\ latest_slug = << probes[2].slug >>

\* The characters a sheet name may not hold.
Forbidden == Chars(":\\/?*[]")

\* C5: safe_sheet_name(s) has at most 31 characters, none of : \ / ? * [ ],
\* and sanitizing it again gives it back.
C5_SheetNameSafeAndIdempotent ==
  pc = "sheet" =>
    \A n \in DOMAIN res :
      /\ Len(res[n]) <= 31
      /\ Chars(res[n]) \cap Forbidden = {}
      /\ n > 1 => res[n] = res[n - 1]

\* A name longer than 31 characters with a forbidden character among the
\* first 31 and one after them, sanitized twice.
C5_Witness ==
  /\ pc = "sheet"
  /\ Len(res) = 2
  /\ Len(arg) > 31
  /\ Chars(SubSeq(arg, 1, 31)) \cap Forbidden # {}
  /\ Char(arg, Len(arg)) \in Forbidden
  /\ res[1] # arg

\* C6: when discovery returns no slug the run ends with "no race slugs
\* found" before any probe, any sub-page fetch and any workbook.
C6_EmptyDiscoveryEndsRun ==
  (pc \notin {"start", "discovering", "sheet"} /\ error # "HTTPError"
     /\ slugs = << >>) =>
    /\ pc \in {"discovered", "failed"}
    /\ pc = "failed" => error = "NoSlugs"
    /\ probes = << >>
    /\ p = 0
    /\ tables = << >>
    /\ writer = "unopened"
    /\ sheets = << >>
    /\ disk = << >>
    /\ ~saved

\* The page had anchors, none of them a race link, and the run has ended.
C6_Witness ==
  /\ pc = "failed"
  /\ error = "NoSlugs"
  /\ slugs = << >>
  /\ Len(anchors) = 3

\* The characters of a slug: lowercase letters, digits and the hyphen.
SlugAlphabet == Chars("abcdefghijklmnopqrstuvwxyz0123456789-")

\* s is the slug of target t: t is /en/2025/, then s, then / or .aspx.
SlugOf(t, s) ==
  /\ s # ""
  /\ \/ StartsWith(t, "/en/2025/" \o s \o "/")
     \/ StartsWith(t, "/en/2025/" \o s \o ".aspx")
  /\ \A n \in 1..Len(s) : Char(s, n) \in SlugAlphabet

\* The link targets of the page: the href attributes without the spaces
\* around them.
Targets == { Strip(anchors[n]) : n \in DOMAIN anchors }

\* Every slug some target has.
TargetSlugs ==
  UNION { { s \in { SubSeq(t, 10, e) : e \in 10..Len(t) } : SlugOf(t, s) } :
            t \in Targets }

\* C7: get_race_slugs_for_year returns, strictly ascending and so without
\* duplicates, exactly the slugs of the targets that match the pattern.
C7_DiscoveryIsSortedSetOfMatches ==
  pc = "discovered" =>
    /\ \A n \in 1..(Len(slugs) - 1) : StrLess(slugs[n], slugs[n + 1])
    /\ Range(slugs) = TargetSlugs

\* Two anchors with the same slug, a malformed one, and one slug returned.
C7_Witness ==
  /\ pc = "discovered"
  /\ anchors = << "/en/2025/las-vegas.aspx", "/en/2025/../x.aspx",
                  " /en/2025/las-vegas/ " >>
  /\ slugs = << "las-vegas" >>

\* The page identifiers: the suffixes without their extension.
PageIds ==
  << "engages", "qualification", "grille", "classement", "en-tete",
     "meilleur-tour", "tour-par-tour", "championnat" >>

IndexText == << "1", "2", "3", "4", "5", "6", "7", "8", "9" >>

\* {slug}_{page}_1 ... {slug}_{page}_N for the first pg sub-pages, and the
\* tables they name.
RECURSIVE DerivedNames(_)
DerivedNames(pg) ==
  IF pg = 0 THEN << >>
  ELSE DerivedNames(pg - 1)
         \o [ n \in 1..tables[pg] |->
                latest_slug[1] \o "_" \o PageIds[pg] \o "_" \o IndexText[n] ]

RECURSIVE DerivedTables(_)
DerivedTables(pg) ==
  IF pg = 0 THEN << >>
  ELSE DerivedTables(pg - 1) \o [ n \in 1..tables[pg] |-> << pg, n >> ]

RECURSIVE Total(_)
Total(pg) == IF pg = 0 THEN 0 ELSE Total(pg - 1) + tables[pg]

SheetNames == [ n \in DOMAIN sheets |-> sheets[n].name ]

SheetTables == [ n \in DOMAIN sheets |-> sheets[n].table ]

First31(s) == SubSeq(s, 1, IF Len(s) < 31 THEN Len(s) ELSE 31)

\* A sequence without its repeats, the first of each kept.
RECURSIVE Distinct(_)
Distinct(q) ==
  IF q = << >> THEN q
  ELSE LET front == Distinct(SubSeq(q, 1, Len(q) - 1))
       IN  IF q[Len(q)] \in Range(front) THEN front
           ELSE Append(front, q[Len(q)])

\* C8 as claimed: after a successful run the book is RunLog and then one
\* sheet per harvested table, named {slug}_{page}_{index}, in order.
C8_OneSheetPerTable ==
  pc = "done" =>
    /\ SheetNames = << "RunLog" >> \o DerivedNames(Len(PAGES))
    /\ Len(sheets) = 1 + Total(Len(PAGES))

\* C8 as amended: the sheets are named by the first 31 characters of
\* {slug}_{page}_{index}, tables whose names then coincide share a sheet, and
\* when every derived name has at most 31 characters the book is RunLog and
\* then one sheet per harvested table, in order.
C8_OneSheetPerShortName ==
  pc = "done" =>
    LET names == DerivedNames(Len(PAGES))
        cut   == [ n \in DOMAIN names |-> First31(names[n]) ]
    IN  /\ SheetNames = << "RunLog" >> \o Distinct(cut)
        /\ disk = sheets
        /\ (\A n \in DOMAIN names : Len(names[n]) <= 31) =>
             /\ SheetNames = << "RunLog" >> \o names
             /\ SheetTables = << << 0, 0 >> >> \o DerivedTables(Len(PAGES))
             /\ Len(sheets) = 1 + Total(Len(PAGES))

\* A finished run for a short slug with one sub-page of two tables.
C8_Witness ==
  /\ pc = "done"
  /\ latest_slug = << "abou-dhabi" >>
  /\ tables[2] = 2
  /\ tables[1] = 1
  /\ sheets[3].name = "abou-dhabi_qualification_1"
  /\ sheets[4].name = "abou-dhabi_qualification_2"

\* C9 as claimed: a sub-page failure ends the run, no later sub-page is
\* fetched, "Saved:" is not printed and nothing harvested before is kept.
C9_FailureDiscardsEverything ==
  error = "HarvestError" =>
    /\ pc = "failed"
    /\ ~saved
    /\ Len(tables) = p - 1
    /\ \A n \in DOMAIN disk : disk[n].table = << 0, 0 >>

\* C9 as amended: a sub-page failure ends the run, no later sub-page is
\* fetched and "Saved:" is not printed; the writer is closed on the way out,
\* so the file holds RunLog and the sheets written before the failure.
C9_FailureEndsRunKeepsWrittenSheets ==
  error = "HarvestError" =>
    /\ pc = "failed"
    /\ ~ENABLED Next
    /\ ~saved
    /\ Len(tables) = p - 1
    /\ writer = "closed"
    /\ disk = sheets
    /\ SheetTables[1] = << 0, 0 >>
    /\ \A pg \in 1..(p - 1) : \E n \in DOMAIN disk : disk[n].table[1] = pg

\* The third sub-page fails after two were harvested.
C9_Witness ==
  /\ error = "HarvestError"
  /\ p = 3
  /\ Len(tables) = 2
  /\ Len(disk) >= 3

\* The steps the open writer still has to see: the Run Record, the tables
\* of the current sub-page and the sub-pages to come.
Remaining ==
  IF pc = "opened" THEN Len(PAGES) * (MaxTables + 1) + 1
  ELSE (Len(PAGES) - p) * (MaxTables + 1) + (dfs + 1 - j)

\* C10: the writer is opened at most once and after the selection, sheets
\* are written only while it is open, it is never reopened or written after
\* it is closed, and once open it comes to be closed, by the end of the loop
\* or by an exception: it is open only inside the `with` block, each step
\* there leaves less to do, and a run that has left the block has closed it.
C10_OneWriterSession ==
  /\ [](writer # "unopened" => latest_slug # << >>)
  /\ [][writer' # writer =>
          \/ writer = "unopened" /\ writer' = "open"
          \/ writer = "open" /\ writer' = "closed"]_vars
  /\ [][sheets' # sheets => (writer = "open" /\ writer' = "open")]_vars
  /\ [](writer = "open" <=> pc \in {"opened", "harvesting"})
  /\ [](writer = "open" => Remaining >= 0)
  /\ [][(writer = "open" /\ writer' = "open") => Remaining' < Remaining]_vars

\* The writer closed by an exception with sheets written.
C10_Witness ==
  /\ writer = "closed"
  /\ pc = "failed"
  /\ Len(sheets) = 2
  /\ sheets[2].table = << 1, 1 >>

====
